---- MODULE Spec2Model ----
(***************************************************************************)
(* Model of scopeblind-open: the self-hosted gateway                       *)
(* (gateway/src/index.ts) and the browser widget's token lifecycle         *)
(* (packages/widget/src/index.ts, voprf.ts, holder-binding.ts).            *)
(*                                                                         *)
(* The specifications of the module: GatewaySpec moves only the gateway's  *)
(* variables, and GatewayLiveSpec adds that the calls it awaits settle;    *)
(* WidgetSpec moves the widget's, one call at a time; ConcurrentSpec       *)
(* interleaves two calls of the widget at their awaits; StorageSpec lets   *)
(* the browser's stores be lost; ProofSpec applies generateSpendProof.     *)
(***************************************************************************)
EXTENDS Integers, Sequences, FiniteSets, TLC

VARIABLES
    env,            \* gateway: c.env bindings (BACKEND_URL)
    gpc,            \* gateway: position of the /api/* handler for the current request
    req,            \* gateway: the inbound request being handled
    verifyReqs,     \* gateway: requests sent to the verifier for the current request
    verifyOutcome,  \* gateway: what the verifier call produced
    backendReqs,    \* gateway: requests sent to the backend for the current request
    backendOutcome, \* gateway: what the backend call produced
    resp,           \* gateway: the response returned to the caller
    config,         \* widget: this.config
    token,          \* widget: this.token
    deviceIdentity, \* widget: this.deviceIdentity
    finData,        \* widget: this.voprfClient.finData
    ui,             \* widget: this.ui (badge and quota modal)
    localStorage,   \* browser: localStorage of the origin
    idb,            \* browser: IndexedDB store scopeblind/identity
    task,           \* widget: the calls in progress, one per caller
    epoch,          \* issuer: the current epoch
    uuids,          \* browser: how many crypto.randomUUID() values were drawn
    keys,           \* browser: how many key pairs were generated
    issuerReqs,     \* issuer: the request bodies it has received
    minted,         \* history: the tokens minted, with site, epoch and the
                    \* device identity held at the time
    firstTok,       \* history: per site, the first token ensureToken returned
    subtle,         \* browser: whether window.crypto.subtle exists on this origin
    idHist          \* history: the first identity returned, and how the last call went

gvars == <<env, gpc, req, verifyReqs, verifyOutcome, backendReqs, backendOutcome, resp>>

wvars == <<config, token, deviceIdentity, finData, ui, localStorage, idb, task,
           epoch, uuids, keys, issuerReqs, minted, firstTok, subtle, idHist>>

vars == <<gvars, wvars>>

Undefined == "undefined"
None == "none"

-----------------------------------------------------------------------------
(* Strings whose characters matter (header names) are sequences of          *)
(* one-character strings, so that toLowerCase and startsWith are computed.  *)

UpperChars ==
    <<"A","B","C","D","E","F","G","H","I","J","K","L","M",
      "N","O","P","Q","R","S","T","U","V","W","X","Y","Z">>

LowerChars ==
    <<"a","b","c","d","e","f","g","h","i","j","k","l","m",
      "n","o","p","q","r","s","t","u","v","w","x","y","z">>

Chars == {UpperChars[i] : i \in 1..Len(UpperChars)} \cup
         {LowerChars[i] : i \in 1..Len(LowerChars)} \cup {"-"}

ToLowerMap ==
    [c \in Chars |->
        IF \E i \in 1..Len(UpperChars) : UpperChars[i] = c
        THEN LowerChars[CHOOSE i \in 1..Len(UpperChars) : UpperChars[i] = c]
        ELSE c]

ToLowerChar(c) == ToLowerMap[c]

\* String.prototype.toLowerCase
ToLowerCase(s) == [i \in 1..Len(s) |-> ToLowerChar(s[i])]

\* String.prototype.startsWith
StartsWith(s, p) == Len(s) >= Len(p) /\ SubSeq(s, 1, Len(p)) = p

\* the literal 'x-scopeblind' of the header filter
XScopeblindPrefix == <<"x","-","s","c","o","p","e","b","l","i","n","d">>

\* header names as clients may spell them
HdrProof == <<"X","-","S","c","o","p","e","B","l","i","n","d","-","P","r","o","o","f">>
HdrToken == <<"x","-","s","c","o","p","e","b","l","i","n","d","-","t","o","k","e","n">>
HdrCost  == <<"X","-","S","C","O","P","E","B","L","I","N","D","-","C","O","S","T">>
HdrContentType == <<"C","o","n","t","e","n","t","-","T","y","p","e">>
HdrXScope == <<"X","-","S","c","o","p","e">>
HdrHost  == <<"H","o","s","t">>
HdrACAO  == <<"A","c","c","e","s","s","-","C","o","n","t","r","o","l","-",
              "A","l","l","o","w","-","O","r","i","g","i","n">>

\* the names the handler looks up, as written in the source
NameProof == <<"X","-","S","c","o","p","e","B","l","i","n","d","-","P","r","o","o","f">>
NameToken == <<"X","-","S","c","o","p","e","B","l","i","n","d","-","T","o","k","e","n">>

-----------------------------------------------------------------------------
(* The Headers class: names are kept lower-cased, set() overwrites.         *)

EmptyHeaders == [n \in {} |-> ""]

HeadersSet(h, k, v) ==
    [n \in DOMAIN h \cup {ToLowerCase(k)} |-> IF n = ToLowerCase(k) THEN v ELSE h[n]]

HeadersGet(h, k) ==
    IF ToLowerCase(k) \in DOMAIN h THEN h[ToLowerCase(k)] ELSE Undefined

\* the Headers object of an inbound request whose header lines are raw
NewHeaders(raw) ==
    [n \in {ToLowerCase(k) : k \in DOMAIN raw} |->
        raw[CHOOSE k \in DOMAIN raw : ToLowerCase(k) = n]]

\* JavaScript truthiness of a header value: undefined and '' are falsy
Truthy(v) == v # Undefined /\ v # ""

-----------------------------------------------------------------------------
(* Gateway: inputs.                                                         *)

Methods == {"GET", "HEAD", "POST", "OPTIONS"}
Paths == {"/api/chat", "/api/v2/items"}
Searches == {"", "?q=1"}
Bodies == {None, "body1"}

\* the header lines a client may send, and the values each may carry
HeaderPool == {HdrProof, HdrToken, HdrCost, HdrContentType, HdrXScope}

HeaderValues(n) ==
    IF n = HdrProof THEN {"", "proof1"}
    ELSE IF n = HdrToken THEN {"", "token1"}
    ELSE IF n = HdrCost THEN {"1"}
    ELSE IF n = HdrContentType THEN {"application/json"}
    ELSE {"x"}

AllHeaderValues == UNION {HeaderValues(n) : n \in HeaderPool}

RawHeaderMaps ==
    UNION { {h \in [S -> AllHeaderValues] : \A n \in S : h[n] \in HeaderValues(n)} :
            S \in SUBSET HeaderPool }

InboundRequests ==
    [method : Methods, path : Paths, search : Searches,
     headers : RawHeaderMaps, body : Bodies]

NoReq == [method |-> None, path |-> None, search |-> None,
          headers |-> EmptyHeaders, body |-> None]

\* c.env: BACKEND_URL unset, or a URL (possibly with its own path and query)
NoUrl == [configured |-> FALSE, host |-> "", path |-> "", search |-> ""]

BackendUrls ==
    { NoUrl,
      [configured |-> TRUE, host |-> "backend.example", path |-> "/v1", search |-> "?k=1"] }

Envs == [BACKEND_URL : BackendUrls]

\* what a call to the verifier can produce: no answer, or a status and a body
\* that may be unreadable, plain text, or the JSON {allowed: ...}
VerifierBodies ==
    { [readable |-> FALSE, isJson |-> FALSE, allowed |-> FALSE, text |-> ""],
      [readable |-> TRUE,  isJson |-> FALSE, allowed |-> FALSE, text |-> "quota exceeded"],
      [readable |-> TRUE,  isJson |-> TRUE,  allowed |-> TRUE,  text |-> "{allowed:true}"],
      [readable |-> TRUE,  isJson |-> TRUE,  allowed |-> FALSE, text |-> "{allowed:false}"] }

VerifierStatuses == {200, 403, 500}

NoOutcome == [kind |-> None, status |-> 0,
              body |-> [readable |-> FALSE, isJson |-> FALSE, allowed |-> FALSE, text |-> ""]]

VerifierOutcomes ==
    { [kind |-> "unreachable", status |-> 0, body |-> NoOutcome.body] } \cup
    [kind : {"response"}, status : VerifierStatuses, body : VerifierBodies]

\* Response.ok
Ok(status) == status >= 200 /\ status <= 299

\* what a call to the backend can produce
BackendStatuses == {200, 429}
BackendResponseHeaders == {EmptyHeaders, HeadersSet(EmptyHeaders, HdrACAO, "https://a.example")}

NoBackendOutcome == [kind |-> None, status |-> 0, body |-> "", headers |-> EmptyHeaders]

BackendOutcomes ==
    { [kind |-> "unreachable", status |-> 0, body |-> "", headers |-> EmptyHeaders] } \cup
    [kind : {"response"}, status : BackendStatuses, body : {"backend-body"},
     headers : BackendResponseHeaders]

-----------------------------------------------------------------------------
(* Gateway: the /api/* handler.                                             *)

NoResp == [source |-> None, status |-> 0, body |-> [json |-> FALSE, raw |-> ""],
           headers |-> EmptyHeaders]

\* c.json(obj, status)
Json(error, details, status) ==
    [source |-> "gateway", status |-> status,
     body |-> [json |-> TRUE, error |-> error, details |-> details],
     headers |-> EmptyHeaders]

Respond(r) == [next |-> "respond", resp |-> r]
Continue == [next |-> "continue", resp |-> NoResp]

proofHeader(r) == HeadersGet(r.headers, NameProof)
tokenHeader(r) == HeadersGet(r.headers, NameToken)

\* the condition of the handler's first if
CarriesProof(r) == Truthy(proofHeader(r)) \/ Truthy(tokenHeader(r))

\* the POST {verifierUrl}/verify the handler sends
VerifyRequest(r) ==
    [url |-> "/verify", method |-> "POST",
     body |-> [proof |-> proofHeader(r), token |-> tokenHeader(r),
               path |-> r.path, method |-> r.method]]

\* variant: the response's ok flag is not looked at
OnVerifyReply_IgnoreStatus(out) ==
    IF out.kind = "unreachable"
    THEN Respond(Json("Verification service unavailable", "", 503))
    ELSE IF out.body.readable /\ out.body.isJson
         THEN Continue
         ELSE Respond(Json("Verification service unavailable", "", 503))

\* variant: the catch block logs and lets the request through
OnVerifyReply_FailOpen(out) ==
    IF out.kind = "unreachable"
    THEN Continue
    ELSE IF ~Ok(out.status)
         THEN IF out.body.readable
              THEN Respond(Json("Invalid ScopeBlind proof", out.body.text, 403))
              ELSE Continue
         ELSE Continue

\* the try block after the verifier call: a rejected fetch, text() or json()
\* is caught and answered 503; a non-ok response is answered 403
OnVerifyReply(out) ==
    IF out.kind = "unreachable"
    THEN Respond(Json("Verification service unavailable", "", 503))
    ELSE IF ~Ok(out.status)
         THEN IF out.body.readable
              THEN Respond(Json("Invalid ScopeBlind proof", out.body.text, 403))
              ELSE Respond(Json("Verification service unavailable", "", 503))
         ELSE IF out.body.readable /\ out.body.isJson
              THEN Continue
              ELSE Respond(Json("Verification service unavailable", "", 503))

\* variant: Option 1 of the else branch, reject unauthenticated requests
NoProofPolicy_Reject == Respond(Json("ScopeBlind proof required", "", 401))

\* the else branch: no proof provided, the request is allowed
NoProofPolicy == Continue

\* variant: targetUrl.search is not replaced by the inbound query
TargetUrl_BaseSearch(r, base) == [host |-> base.host, path |-> r.path, search |-> ""]

\* new URL(c.req.path, backendUrl) with targetUrl.search replaced
TargetUrl(r, base) == [host |-> base.host, path |-> r.path, search |-> r.search]

\* variant: only the two headers the handler reads are removed
StripHeaders_ProofTokenOnly(h) ==
    [n \in {k \in DOMAIN h : k \notin {ToLowerCase(NameProof), ToLowerCase(NameToken)}} |-> h[n]]

\* the header copy loop of the handler
StripHeaders(h) ==
    [n \in {k \in DOMAIN h : ~StartsWith(ToLowerCase(k), XScopeblindPrefix)} |-> h[n]]

\* the body option of the backend fetch
ForwardBody(r) ==
    IF r.method # "GET" /\ r.method # "HEAD" THEN r.body ELSE Undefined

BackendRequest(r, base) ==
    [url |-> TargetUrl(r, base), method |-> r.method,
     headers |-> HeadersSet(StripHeaders(r.headers), HdrHost, base.host),
     body |-> ForwardBody(r)]

\* variant: the backend's headers are passed on as they are
EchoResponse_NoCors(out) ==
    [source |-> "backend", status |-> out.status,
     body |-> [json |-> FALSE, raw |-> out.body],
     headers |-> out.headers]

\* the response the handler builds from the backend's
EchoResponse(out) ==
    [source |-> "backend", status |-> out.status,
     body |-> [json |-> FALSE, raw |-> out.body],
     headers |-> HeadersSet(out.headers, HdrACAO, "*")]

\* variant: an unreachable backend is reported as a gateway timeout
OnBackendReply_504(out) ==
    IF out.kind = "unreachable"
    THEN Json("Backend unreachable", "fetch failed", 504)
    ELSE EchoResponse(out)

\* the try block around the backend fetch
OnBackendReply(out) ==
    IF out.kind = "unreachable"
    THEN Json("Backend unreachable", "fetch failed", 502)
    ELSE EchoResponse(out)

\* the cors middleware answers a preflight itself, the handler never runs
CorsPreflight ==
    [source |-> "cors", status |-> 204, body |-> [json |-> FALSE, raw |-> ""],
     headers |-> HeadersSet(EmptyHeaders, HdrACAO, "*")]

\* step 2 of the handler, up to the backend fetch being issued
Forward(r) ==
    IF ~env.BACKEND_URL.configured
    THEN /\ resp' = Json("BACKEND_URL not configured", "", 500)
         /\ gpc' = "done"
         /\ UNCHANGED backendReqs
    ELSE /\ backendReqs' = Append(backendReqs, BackendRequest(r, env.BACKEND_URL))
         /\ gpc' = "forward"
         /\ UNCHANGED resp

\* what follows a step of the verification stage
After(step, r) ==
    IF step.next = "respond"
    THEN /\ resp' = step.resp
         /\ gpc' = "done"
         /\ UNCHANGED backendReqs
    ELSE Forward(r)

GInit ==
    /\ env \in Envs
    /\ gpc = "idle"
    /\ req = NoReq
    /\ verifyReqs = <<>>
    /\ verifyOutcome = NoOutcome
    /\ backendReqs = <<>>
    /\ backendOutcome = NoBackendOutcome
    /\ resp = NoResp

\* the Request the runtime hands to the handler for the received header lines
Parse(raw) == [raw EXCEPT !.headers = NewHeaders(raw.headers)]

\* variant: the backend call is issued together with the verifier call
GReceive_ForwardFirst(r) ==
    /\ gpc = "idle"
    /\ req' = r
    /\ UNCHANGED <<env, verifyOutcome, backendOutcome>>
    /\ IF r.method = "OPTIONS"
       THEN /\ resp' = CorsPreflight
            /\ gpc' = "done"
            /\ UNCHANGED <<verifyReqs, backendReqs>>
       ELSE IF CarriesProof(r)
            THEN /\ verifyReqs' = Append(verifyReqs, VerifyRequest(r))
                 /\ backendReqs' = Append(backendReqs, BackendRequest(r, env.BACKEND_URL))
                 /\ gpc' = "verify"
                 /\ UNCHANGED resp
            ELSE /\ UNCHANGED verifyReqs
                 /\ After(NoProofPolicy, r)
    /\ UNCHANGED wvars

\* a request arrives: the handler runs up to its first await
GReceive(r) ==
    /\ gpc = "idle"
    /\ req' = r
    /\ UNCHANGED <<env, verifyOutcome, backendOutcome>>
    /\ IF r.method = "OPTIONS"
       THEN /\ resp' = CorsPreflight
            /\ gpc' = "done"
            /\ UNCHANGED <<verifyReqs, backendReqs>>
       ELSE IF CarriesProof(r)
            THEN /\ verifyReqs' = Append(verifyReqs, VerifyRequest(r))
                 /\ gpc' = "verify"
                 /\ UNCHANGED <<backendReqs, resp>>
            ELSE /\ UNCHANGED verifyReqs
                 /\ After(NoProofPolicy, r)
    /\ UNCHANGED wvars

\* the verifier call settles: the handler runs up to its next await or return
GVerifierReply(out) ==
    /\ gpc = "verify"
    /\ verifyOutcome' = out
    /\ UNCHANGED <<env, req, verifyReqs, backendOutcome>>
    /\ After(OnVerifyReply(out), req)
    /\ UNCHANGED wvars

\* variant: a rejected backend fetch is not caught, the invocation ends
\* without a response
GBackendReply_Uncaught(out) ==
    /\ gpc = "forward"
    /\ backendOutcome' = out
    /\ IF out.kind = "unreachable"
       THEN resp' = resp /\ gpc' = "crashed"
       ELSE resp' = OnBackendReply(out) /\ gpc' = "done"
    /\ UNCHANGED <<env, req, verifyReqs, verifyOutcome, backendReqs>>
    /\ UNCHANGED wvars

\* the backend call settles: the handler returns
GBackendReply(out) ==
    /\ gpc = "forward"
    /\ backendOutcome' = out
    /\ resp' = OnBackendReply(out)
    /\ gpc' = "done"
    /\ UNCHANGED <<env, req, verifyReqs, verifyOutcome, backendReqs>>
    /\ UNCHANGED wvars

\* the invocation ends; the next request starts from nothing (no state is kept)
GFinish ==
    /\ gpc = "done"
    /\ gpc' = "idle"
    /\ req' = NoReq
    /\ verifyReqs' = <<>>
    /\ verifyOutcome' = NoOutcome
    /\ backendReqs' = <<>>
    /\ backendOutcome' = NoBackendOutcome
    /\ resp' = NoResp
    /\ UNCHANGED env
    /\ UNCHANGED wvars

GNext ==
    \/ \E raw \in InboundRequests : GReceive(Parse(raw))
    \/ \E out \in VerifierOutcomes : GVerifierReply(out)
    \/ \E out \in BackendOutcomes : GBackendReply(out)
    \/ GFinish


-----------------------------------------------------------------------------
(* Gateway: properties.                                                     *)

\* the request carries the named header line, whatever its value
HasHeader(r, name) == ToLowerCase(name) \in DOMAIN r.headers

CarriesHeader(r) == HasHeader(r, NameProof) \/ HasHeader(r, NameToken)

VerifierSaidNon2xx == verifyOutcome.kind = "response" /\ ~Ok(verifyOutcome.status)

\* the verifier call failed: no answer, or an answer whose body the handler
\* could not read (text() of a non-2xx reply, json() of a 2xx reply)
VerifierCallFailed ==
    \/ verifyOutcome.kind = "unreachable"
    \/ /\ verifyOutcome.kind = "response"
       /\ IF Ok(verifyOutcome.status)
          THEN ~(verifyOutcome.body.readable /\ verifyOutcome.body.isJson)
          ELSE ~verifyOutcome.body.readable

GatewayError(status) == resp.source = "gateway" /\ resp.status = status

\* C1 as stated: a non-2xx verifier answer always gives 403 carrying the
\* verifier's error text, and the backend is not called.
C1_Original ==
    VerifierSaidNon2xx =>
        /\ GatewayError(403)
        /\ resp.body.details = verifyOutcome.body.text
        /\ backendReqs = <<>>

\* C1: when the verifier answers non-2xx the backend is never called; the
\* gateway responds 403 carrying the verifier's error text when that text can
\* be read, and 503 when reading it fails.
C1_Non2xxRejected ==
    VerifierSaidNon2xx =>
        /\ backendReqs = <<>>
        /\ IF verifyOutcome.body.readable
           THEN GatewayError(403) /\ resp.body.details = verifyOutcome.body.text
           ELSE GatewayError(503)

C1_Witness ==
    /\ VerifierSaidNon2xx
    /\ verifyOutcome.body.text = "quota exceeded"
    /\ GatewayError(403)
    /\ CarriesHeader(req)

\* C2: when the verifier call fails (unreachable, or its reply cannot be
\* read) the gateway responds 503 and the backend is never called.
C2_VerifierFailure503 ==
    VerifierCallFailed => GatewayError(503) /\ backendReqs = <<>>

C2_Witness ==
    /\ verifyOutcome.kind = "unreachable"
    /\ CarriesHeader(req)
    /\ GatewayError(503)
    /\ env.BACKEND_URL.configured

\* C3 as stated: a request carrying a proof or token header reaches the
\* backend only if the verifier's result has allowed = true.
C3_ForwardOnlyIfAllowed ==
    (CarriesProof(req) /\ backendReqs # <<>>) =>
        /\ verifyOutcome.kind = "response"
        /\ verifyOutcome.body.isJson
        /\ verifyOutcome.body.allowed

\* C4: no request sent to the backend has a header whose name starts with
\* x-scopeblind, compared case-insensitively.
C4_NoScopeBlindHeaderForwarded ==
    \A i \in DOMAIN backendReqs :
        \A n \in DOMAIN backendReqs[i].headers :
            ~(Len(n) >= Len(XScopeblindPrefix)
              /\ \A j \in 1..Len(XScopeblindPrefix) :
                    ToLowerMap[n[j]] = XScopeblindPrefix[j])

C4_Witness ==
    /\ backendReqs # <<>>
    /\ HasHeader(req, HdrCost)
    /\ HasHeader(req, HdrProof)
    /\ HasHeader(req, HdrToken)
    /\ HasHeader(req, HdrXScope)
    /\ ToLowerCase(HdrXScope) \in DOMAIN backendReqs[1].headers

\* a forwarded body equals the inbound one (null and undefined both mean none)
SameBody(in, out) ==
    IF in = None THEN out \in {None, Undefined} ELSE out = in

SameTarget(r, b) ==
    /\ b.method = r.method
    /\ b.url.path = r.path
    /\ b.url.search = r.search

\* C5 as stated: a forwarded request has the inbound method, path, query and
\* body, for every method and body.
C5_Original ==
    \A i \in DOMAIN backendReqs :
        SameTarget(req, backendReqs[i]) /\ SameBody(req.body, backendReqs[i].body)

\* C5: a forwarded request has the inbound method, path and query; it has the
\* inbound body for every method other than GET and HEAD, and no body for GET
\* and HEAD.
C5_ForwardedVerbatim ==
    \A i \in DOMAIN backendReqs :
        /\ SameTarget(req, backendReqs[i])
        /\ IF req.method \in {"GET", "HEAD"}
           THEN backendReqs[i].body = Undefined
           ELSE SameBody(req.body, backendReqs[i].body)

C5_Witness ==
    /\ backendReqs # <<>>
    /\ req.method = "POST"
    /\ req.body = "body1"
    /\ req.search = "?q=1"
    /\ backendReqs[1].body = "body1"
    /\ backendReqs[1].url.search = "?q=1"

NoProofRequest == gpc # "idle" /\ ~CarriesHeader(req)

\* C6 as stated: a request with neither header is not answered 401, causes no
\* verifier call, and is forwarded to the backend.
C6_Original ==
    NoProofRequest =>
        /\ ~GatewayError(401)
        /\ verifyReqs = <<>>
        /\ backendReqs # <<>>

\* C6: a request with neither header is not answered 401 and causes no
\* verifier call; it is forwarded to the backend when BACKEND_URL is
\* configured and the request is not a preflight (OPTIONS), and otherwise
\* answered 500 (BACKEND_URL unset) or 204 (preflight) without a backend call.
C6_NoProofAllowed ==
    NoProofRequest =>
        /\ ~GatewayError(401)
        /\ verifyReqs = <<>>
        /\ IF req.method = "OPTIONS"
           THEN backendReqs = <<>> /\ resp.source = "cors" /\ resp.status = 204
           ELSE IF env.BACKEND_URL.configured
                THEN Len(backendReqs) = 1
                ELSE backendReqs = <<>> /\ GatewayError(500)

C6_Witness ==
    /\ NoProofRequest
    /\ req.method = "GET"
    /\ Len(backendReqs) = 1
    /\ verifyReqs = <<>>
    /\ gpc = "forward"

\* C7 as stated: every error response produced by the gateway has a status in
\* {401, 403, 502, 503}.
C7_Original ==
    resp.source = "gateway" => resp.status \in {401, 403, 502, 503}

\* C7: every error response produced by the gateway has a status in
\* {401, 403, 500, 502, 503}; 500 is the answer when BACKEND_URL is not
\* configured.
C7_GatewayStatuses ==
    resp.source = "gateway" =>
        /\ resp.status \in {401, 403, 500, 502, 503}
        /\ (resp.status = 500 => ~env.BACKEND_URL.configured)

C7_Witness ==
    /\ GatewayError(500)
    /\ CarriesHeader(req)
    /\ verifyOutcome.kind = "response"

\* C8: a failed backend call is answered 502; a backend answer is returned
\* with its status and body and with Access-Control-Allow-Origin: *.
C8_BackendOutcomeRelayed ==
    /\ backendOutcome.kind = "unreachable" => GatewayError(502)
    /\ backendOutcome.kind = "response" =>
        /\ resp.source = "backend"
        /\ resp.status = backendOutcome.status
        /\ resp.body.raw = backendOutcome.body
        /\ HeadersGet(resp.headers, HdrACAO) = "*"

C8_Witness ==
    /\ backendOutcome.kind = "response"
    /\ backendOutcome.status = 429
    /\ HeadersGet(backendOutcome.headers, HdrACAO) = "https://a.example"
    /\ HeadersGet(resp.headers, HdrACAO) = "*"
    /\ resp.status = 429

-----------------------------------------------------------------------------
(* Widget: byte strings, base64 and JSON as the widget uses them.           *)

RECURSIVE Pow2(_)
Pow2(n) == IF n = 0 THEN 1 ELSE 2 * Pow2(n - 1)

\* the bits of a byte, most significant first
ByteBits(b) == [i \in 1..8 |-> (b \div Pow2(8 - i)) % 2]

RECURSIVE BytesBits(_)
BytesBits(bytes) ==
    IF bytes = <<>> THEN <<>> ELSE ByteBits(Head(bytes)) \o BytesBits(Tail(bytes))

RECURSIVE BitsValue(_)
BitsValue(bits) ==
    IF bits = <<>> THEN 0
    ELSE 2 * BitsValue(SubSeq(bits, 1, Len(bits) - 1)) + bits[Len(bits)]

\* zero bits appended up to a multiple of n
PadBits(bits, n) ==
    bits \o [i \in 1..((n - (Len(bits) % n)) % n) |-> 0]

\* bits cut into groups of n, each read as a number; a short tail is dropped
Groups(bits, n) ==
    [i \in 1..(Len(bits) \div n) |-> BitsValue(SubSeq(bits, (i - 1) * n + 1, i * n))]

\* glyphs of base64 text: 0..61 are the letters and digits, then
\* '+' '/' (standard alphabet), '-' '_' (URL alphabet) and '='
GlyphPlus == 62
GlyphSlash == 63
GlyphMinus == 64
GlyphUnderscore == 65
GlyphPad == 66

\* btoa(String.fromCharCode(...bytes))
Btoa(bytes) ==
    Groups(PadBits(BytesBits(bytes), 6), 6) \o
    [i \in 1..((3 - (Len(bytes) % 3)) % 3) |-> GlyphPad]

\* s.replace(/x/g, y) on glyphs
ReplaceAll(text, x, y) == [i \in 1..Len(text) |-> IF text[i] = x THEN y ELSE text[i]]

\* s.replace(/=+$/, '')
RECURSIVE StripPad(_)
StripPad(text) ==
    IF text # <<>> /\ text[Len(text)] = GlyphPad
    THEN StripPad(SubSeq(text, 1, Len(text) - 1))
    ELSE text

\* the base64url text the widget sends to the issuer
EncodeRequest(bytes) ==
    StripPad(ReplaceAll(ReplaceAll(Btoa(bytes), GlyphPlus, GlyphMinus),
                        GlyphSlash, GlyphUnderscore))

\* atob: padding is optional, glyphs outside the standard alphabet are an error
AtobOk(text) ==
    /\ \A i \in 1..Len(StripPad(text)) : StripPad(text)[i] \in 0..63
    /\ Len(StripPad(text)) % 4 # 1

GlyphBits(g) == [i \in 1..6 |-> (g \div Pow2(6 - i)) % 2]

Atob(text) ==
    LET t == StripPad(text)
    IN  Groups([i \in 1..(6 * Len(t)) |-> GlyphBits(t[((i - 1) \div 6) + 1])[((i - 1) % 6) + 1]], 8)

\* the bytes the widget reads from the issuer's evalB64
DecodePadded(text) == ReplaceAll(ReplaceAll(text, GlyphMinus, GlyphPlus),
                                 GlyphUnderscore, GlyphSlash)

\* JSON text of an array of numbers; the punctuation marks are negative codes
JsonOpen == -1
JsonComma == -2
JsonClose == -3

RECURSIVE JoinItems(_)
JoinItems(items) ==
    IF items = <<>> THEN <<>>
    ELSE IF Len(items) = 1 THEN <<items[1]>>
    ELSE <<items[1], JsonComma>> \o JoinItems(Tail(items))

\* JSON.stringify(Array.from(token))
JsonStringify(items) == <<JsonOpen>> \o JoinItems(items) \o <<JsonClose>>

\* JSON.parse of such a text
JsonParse(text) ==
    [i \in 1..((Len(text) - 1) \div 2) |-> text[2 * i]]

\* new Uint8Array(array)
Uint8Array(items) == [i \in 1..Len(items) |-> items[i] % 256]

-----------------------------------------------------------------------------
(* Widget: the OPRF exchange of ScopeBlindVoprfClient, over a toy group:    *)
(* the integers modulo GroupOrder under addition, a scalar acting by        *)
(* multiplication.                                                          *)

GroupOrder == 5
Scalars == 1..(GroupOrder - 1)

Inv(r) == CHOOSE x \in Scalars : (x * r) % GroupOrder = 1

\* hash of the input to a group element
HashToGroup(input) == 1 + (input % (GroupOrder - 1))

NoFinData == [blind |-> 0, input |-> 0]

\* client.blind([input]) with the random scalar r: [finData, evalReq]
Blind(input, r) ==
    [finData |-> [blind |-> r, input |-> input],
     request |-> <<(r * HashToGroup(input)) % GroupOrder>>]

\* Evaluation.deserialize accepts one group element
Deserializable(bytes) == Len(bytes) = 1 /\ bytes[1] \in Scalars

\* client.finalize(finData, evaluation): unblind, then hash with the input
Finalize(fd, evaluation) ==
    <<fd.input, (Inv(fd.blind) * evaluation[1]) % GroupOrder>>

\* the issuer's secret key of an epoch
Key(e) == 1 + (e % (GroupOrder - 1))

\* the issuer's answer to the body {evalReqB64} in epoch e: {evalB64}
IssuerEvaluate(evalReqB64, e) ==
    EncodeRequest(<<(Key(e) * Atob(DecodePadded(evalReqB64))[1]) % GroupOrder>>)

-----------------------------------------------------------------------------
(* Widget: state.                                                           *)

MaxEpoch == 1
MaxUuids == 2
MaxKeys == 1

Sites == {"site_42", "site_7"}
SiteIds == Sites \cup {""}
TaskIds == {1, 2}
Blinds == {2, 3}

NullToken == <<>>
NoItem == <<>>

NoIdentity == [type |-> None, publicKey |-> 0, deviceId |-> 0]
WebCryptoIdentity(k) == [type |-> "webcrypto", publicKey |-> k, deviceId |-> 0]
FallbackIdentity(d) == [type |-> "fallback", publicKey |-> 0, deviceId |-> d]

DefaultIssuerUrl == "https://issuer.scopeblind.com"
DefaultProxyUrl == "https://proxy.scopeblind.com"

\* the constructor's config, and the one init() builds
EmptyConfig == [siteId |-> "", issuerUrl |-> Undefined, proxyUrl |-> Undefined,
                showBadge |-> FALSE]

InitConfig(site, badge) ==
    [siteId |-> site, issuerUrl |-> DefaultIssuerUrl, proxyUrl |-> DefaultProxyUrl,
     showBadge |-> badge]

NoRequest == [url |-> None, path |-> "", method |-> None,
              headers |-> EmptyHeaders, body |-> [evalReqB64 |-> <<>>]]

\* variant: the issuance request also names the site
IssueRequest_WithSite(issuerUrl, request) ==
    [url |-> issuerUrl, path |-> "/issue", method |-> "POST",
     headers |-> [n \in {HdrContentType} |-> "application/json"],
     body |-> [evalReqB64 |-> EncodeRequest(request), siteId |-> config.siteId]]

\* fetch(`${issuerUrl}/issue`, {method, headers, body}) for the serialized
\* blinded request
IssueRequest(issuerUrl, request) ==
    [url |-> issuerUrl, path |-> "/issue", method |-> "POST",
     headers |-> [n \in {HdrContentType} |-> "application/json"],
     body |-> [evalReqB64 |-> EncodeRequest(request)]]

\* header names the widget sets, as written in the source
NameSite == <<"X","-","S","c","o","p","e","B","l","i","n","d","-","S","i","t","e">>
NameSignature == <<"X","-","S","c","o","p","e","B","l","i","n","d","-",
                   "S","i","g","n","a","t","u","r","e">>
NameDevice == <<"X","-","S","c","o","p","e","B","l","i","n","d","-",
                "D","e","v","i","c","e">>

\* the calls of fetch(url, options) a page makes: a plain GET, the click
\* handler's POST with a cost header, a POST with a body and a query
NoOptions == [url |-> [path |-> "", search |-> ""], method |-> Undefined,
              headers |-> EmptyHeaders, body |-> None]

PlainGet ==
    [url |-> [path |-> "/api/chat", search |-> ""], method |-> Undefined,
     headers |-> EmptyHeaders, body |-> None]

ClickPost ==
    [url |-> [path |-> "/api/chat", search |-> ""], method |-> "POST",
     headers |-> [n \in {HdrCost} |-> "1"], body |-> None]

BodyPost ==
    [url |-> [path |-> "/api/chat", search |-> "?q=1"], method |-> "POST",
     headers |-> EmptyHeaders, body |-> "body1"]

FetchCalls == {PlainGet, ClickPost, BodyPost}

\* options.method || 'GET'
MethodOf(options) == IF options.method = Undefined THEN "GET" ELSE options.method

\* new URL(url, window.location.origin).pathname
Pathname(url) == url.path

\* options.body ? String(options.body) : null
BodyString(options) == options.body

\* variant: the text is written at offset 0, over the token bytes
GenerateSpendProof_DataAtZero(tok, method, path) ==
    [sha256 |-> <<method, ":", path>> \o SubSeq(tok, 4, Len(tok))]

\* generateSpendProof(token, `${method}:${path}`): the digest of `combined`,
\* the token bytes followed by the bytes of the text; SHA-256 is taken to be
\* free of collisions, so the digest stands for what was hashed
GenerateSpendProof(tok, method, path) == [sha256 |-> tok \o <<method, ":", path>>]

NoProof == [sha256 |-> <<>>]

\* the request fetch hands to the network
NoOut == [url |-> <<>>, method |-> Undefined, headers |-> EmptyHeaders, body |-> None]

NoSignature == [key |-> 0, canonical |-> <<>>]

\* crypto.subtle.sign over `${method}:${path}:${body || ''}`
Signature(key, method, path, body) ==
    [key |-> key, canonical |-> <<method, ":", path, ":", IF body = None THEN "" ELSE body>>]

NoResponse == [status |-> 0, body |-> None]

\* a call in progress: op and pc say where it is; input, sent and pending are
\* its locals, options, proof, out, signature and response those of fetch;
\* site, startEpoch, endEpoch, evalEpoch, base, issued, posts, why, held, ctx
\* (the finData its blind step produced) and used (the finData its finalize
\* step was given) record what it saw, for the properties
IdleTask == [op |-> None, pc |-> "idle", input |-> 0, sent |-> NoRequest,
             pending |-> NullToken, result |-> NullToken,
             options |-> NoOptions, proof |-> NoProof, out |-> NoOut,
             signature |-> NoSignature, response |-> NoResponse,
             site |-> "", startEpoch |-> 0, endEpoch |-> 0, evalEpoch |-> 0,
             base |-> NullToken, issued |-> FALSE, posts |-> 0, why |-> None,
             held |-> NoIdentity, ctx |-> NoFinData, used |-> NoFinData]

NoUi == [badge |-> FALSE, modal |-> FALSE]

NoFirst == [token |-> NullToken, epoch |-> 0]

\* nothing returned yet by getOrCreateDeviceIdentity
NoIdHist == [first |-> NoIdentity, why |-> None, weak |-> 0]

\* `sb_token_${siteId}` is the entry tok[siteId]; 'sb_device_id' is dev
EmptyStorage == [tok |-> [k \in SiteIds |-> NoItem], dev |-> 0]

EmptyIdb == [publicKey |-> 0, privateKey |-> 0]

\* the state of a freshly loaded page: new ScopeBlindWidget()
Constructed ==
    /\ config = EmptyConfig
    /\ token = NullToken
    /\ deviceIdentity = NoIdentity
    /\ finData = NoFinData
    /\ ui = NoUi
    /\ task = [t \in TaskIds |-> IdleTask]

WInit ==
    /\ Constructed
    /\ localStorage = EmptyStorage
    /\ idb = EmptyIdb
    /\ epoch = 0
    /\ uuids = 0
    /\ keys = 0
    /\ issuerReqs = {}
    /\ minted = {}
    /\ firstTok = [k \in SiteIds |-> NoFirst]
    /\ subtle \in BOOLEAN
    /\ idHist = NoIdHist

-----------------------------------------------------------------------------
(* Widget: holder-binding.ts, getOrCreateDeviceIdentity.                    *)

\* where a call of getOrCreateDeviceIdentity may fail
IdentityFailures ==
    {"none", "open", "get", "generate", "export", "putPublic", "putPrivate"}

\* getWebCryptoIdentity with failure point f: whether it returns, and the
\* store it leaves behind
WebCryptoReturns(f) ==
    /\ subtle
    /\ f \notin {"open", "get"}
    /\ idb.publicKey # 0 \/ f = "none"

WebCryptoGenerates(f) ==
    /\ subtle
    /\ f \notin {"open", "get", "generate"}
    /\ idb.publicKey = 0

IdbAfter(f) ==
    IF ~WebCryptoGenerates(f) \/ f \in {"export", "putPublic"} THEN idb
    ELSE IF f = "putPrivate" THEN [idb EXCEPT !.publicKey = keys + 1]
    ELSE [publicKey |-> keys + 1, privateKey |-> keys + 1]

\* variant: getFallbackIdentity draws a device id on every call
FallbackDeviceId_Fresh == uuids + 1

\* getFallbackIdentity: the stored device id, or a fresh one that is stored
FallbackDeviceId == IF localStorage.dev # 0 THEN localStorage.dev ELSE uuids + 1

\* the identity getOrCreateDeviceIdentity returns with failure point f
IdentityReturned(f) ==
    IF WebCryptoReturns(f)
    THEN WebCryptoIdentity(IdbAfter(f).publicKey)
    ELSE FallbackIdentity(FallbackDeviceId)

\* how the call with failure point f went: "nosubtle" when WebCrypto is
\* absent, "none" when getWebCryptoIdentity returned, else where it threw
IdentityOutcome(f) ==
    IF ~subtle THEN "nosubtle"
    ELSE IF WebCryptoReturns(f) THEN "none"
    ELSE f

IdHistAfter(f) ==
    [first |-> IF idHist.first = NoIdentity THEN IdentityReturned(f) ELSE idHist.first,
     why |-> IdentityOutcome(f),
     weak |-> IF idHist.weak = 0 /\ ~WebCryptoReturns(f)
              THEN FallbackDeviceId ELSE idHist.weak]

-----------------------------------------------------------------------------
(* Widget: index.ts, ensureToken / init / getToken.                         *)

Free(t) == task[t].pc \in {"idle", "done", "failed"}

\* the token ensureToken finds without minting: this.token, else the parsed
\* localStorage entry of the configured site
StoredItem == localStorage.tok[config.siteId]

CachedToken ==
    IF token # NullToken THEN token
    ELSE IF StoredItem # NoItem THEN Uint8Array(JsonParse(StoredItem))
    ELSE NullToken

\* the first token returned for a site in the current epoch, if any
Baseline(site) ==
    IF firstTok[site].token # NullToken /\ firstTok[site].epoch = epoch
    THEN firstTok[site].token
    ELSE NullToken

\* ensureToken returns the token r to the call of task tk: init and getToken
\* are done, fetch goes on to generateSpendProof
Returned(tk, r) ==
    [tk EXCEPT !.pc = IF tk.op = "fetch" THEN "proof" ELSE "done",
               !.result = r, !.endEpoch = epoch]

FirstAfter(site, r) ==
    IF Baseline(site) = NullToken
    THEN [firstTok EXCEPT ![site] = [token |-> r, epoch |-> epoch]]
    ELSE firstTok

\* ensureToken from its entry to its first await or return, for a call of
\* task t whose record starts as `start`, after `drawn` UUIDs were drawn
\* earlier in the same step
EnsureTokenEntry(t, start, drawn) ==
    LET tk == [start EXCEPT !.site = config'.siteId,
                            !.startEpoch = epoch, !.base = Baseline(config'.siteId)]
        item == localStorage.tok[config'.siteId]
        hit == IF token # NullToken THEN token
               ELSE IF item # NoItem THEN Uint8Array(JsonParse(item))
               ELSE NullToken
    IN  IF hit # NullToken
        THEN /\ token' = hit
             /\ task' = [task EXCEPT ![t] = Returned(tk, hit)]
             /\ firstTok' = FirstAfter(config'.siteId, hit)
             /\ uuids' = uuids + drawn
        ELSE /\ uuids + drawn < MaxUuids
             /\ token' = token
             /\ task' = [task EXCEPT ![t] =
                            [tk EXCEPT !.pc = "blind", !.input = uuids + drawn + 1]]
             /\ firstTok' = firstTok
             /\ uuids' = uuids + drawn + 1

\* init(config): the config is replaced, then the device identity is awaited
Init(t, site, badge) ==
    /\ Free(t)
    /\ config' = InitConfig(site, badge)
    /\ task' = [task EXCEPT ![t] = [IdleTask EXCEPT !.op = "init", !.pc = "identity"]]
    /\ UNCHANGED <<token, deviceIdentity, finData, ui, localStorage, idb, epoch,
                   uuids, keys, issuerReqs, minted, firstTok>>
    /\ UNCHANGED <<subtle, idHist>>
    /\ UNCHANGED gvars

\* getOrCreateDeviceIdentity settles with failure point f: init stores the
\* identity, shows the badge and enters ensureToken
IdentityDone(t, f) ==
    /\ task[t].pc = "identity"
    /\ WebCryptoGenerates(f) => keys < MaxKeys
    /\ idb' = IdbAfter(f)
    /\ keys' = IF WebCryptoGenerates(f) THEN keys + 1 ELSE keys
    /\ deviceIdentity' = IdentityReturned(f)
    /\ localStorage' =
         IF WebCryptoReturns(f) THEN localStorage
         ELSE [localStorage EXCEPT !.dev = FallbackDeviceId]
    /\ ui' = IF config.showBadge THEN [ui EXCEPT !.badge = TRUE] ELSE ui
    /\ config' = config
    /\ EnsureTokenEntry(t, [IdleTask EXCEPT !.op = "init"],
                        IF ~WebCryptoReturns(f) /\ localStorage.dev = 0 THEN 1 ELSE 0)
    /\ uuids' <= MaxUuids
    /\ UNCHANGED <<finData, epoch, issuerReqs, minted>>
    /\ idHist' = IdHistAfter(f)
    /\ UNCHANGED subtle
    /\ UNCHANGED gvars

\* getToken(): ensureToken is entered directly
GetToken(t) ==
    /\ Free(t)
    /\ config' = config
    /\ EnsureTokenEntry(t, [IdleTask EXCEPT !.op = "getToken"], 0)
    /\ UNCHANGED <<deviceIdentity, finData, ui, localStorage, idb, epoch, keys,
                   issuerReqs, minted>>
    /\ UNCHANGED <<subtle, idHist>>
    /\ UNCHANGED gvars

\* generateBlindRequest settles with the random scalar r: finData is stored,
\* the request is encoded and POSTed to `${issuerUrl}/issue`
BlindDone(t, r) ==
    /\ task[t].pc = "blind"
    /\ LET b == Blind(task[t].input, r)
           request == IssueRequest(config.issuerUrl, b.request)
       IN  /\ finData' = b.finData
           /\ issuerReqs' = issuerReqs \cup {request}
           /\ task' = [task EXCEPT ![t] =
                          [@ EXCEPT !.pc = "issue", !.sent = request, !.issued = TRUE,
                                    !.posts = @ + 1, !.ctx = b.finData]]
    /\ UNCHANGED <<config, token, deviceIdentity, ui, localStorage, idb, epoch,
                   uuids, keys, minted, firstTok>>
    /\ UNCHANGED <<subtle, idHist>>
    /\ UNCHANGED gvars

\* the call fails at `why`: the catch block logs and rethrows
Fail(t, why) ==
    /\ task' = [task EXCEPT ![t] = [@ EXCEPT !.pc = "failed", !.endEpoch = epoch,
                                             !.why = why]]
    /\ UNCHANGED <<config, token, deviceIdentity, finData, ui, localStorage, idb,
                   epoch, uuids, keys, issuerReqs, minted, firstTok>>
    /\ UNCHANGED <<subtle, idHist>>
    /\ UNCHANGED gvars

\* generateBlindRequest rejects
BlindFails(t) ==
    /\ task[t].pc = "blind"
    /\ Fail(t, "blind")

\* what the POST to the issuer can produce: no answer, a non-2xx answer, a
\* 2xx answer that is no JSON with evalB64, or a 2xx answer with evalB64
IssuerFailures == {"unreachable", "status", "badjson"}

\* the evalB64 texts a 2xx answer may carry: the issuer's evaluation of the
\* request in the current epoch (only at the issuer's URL), or a damaged text
IssuerAnswers == {"empty", "invalid", "evaluation"}

EvalText(request, answer) ==
    IF answer = "empty" THEN <<>>
    ELSE IF answer = "invalid" THEN <<GlyphMinus>>
    ELSE IssuerEvaluate(request.body.evalReqB64, epoch)

\* variant: a failed issuance request is sent once more before giving up
IssuerFails_Retry(t, why) ==
    /\ task[t].pc = "issue"
    /\ why \in IssuerFailures
    /\ IF task[t].posts < 2
       THEN /\ task' = [task EXCEPT ![t] = [@ EXCEPT !.posts = @ + 1]]
            /\ UNCHANGED <<config, token, deviceIdentity, finData, ui, localStorage,
                           idb, epoch, uuids, keys, issuerReqs, minted, firstTok>>
            /\ UNCHANGED <<subtle, idHist>>
            /\ UNCHANGED gvars
       ELSE Fail(t, why)

IssuerFails(t, why) ==
    /\ task[t].pc = "issue"
    /\ why \in IssuerFailures
    /\ Fail(t, why)

\* the issuer answers 2xx with evalB64: it is decoded and deserialized, and
\* finalize is called with this.finData as it is now
IssuerReply(t, answer) ==
    /\ task[t].pc = "issue"
    /\ answer = "evaluation" => task[t].sent.url = DefaultIssuerUrl
    /\ LET evalPadded == DecodePadded(EvalText(task[t].sent, answer))
       IN  IF AtobOk(evalPadded) /\ Deserializable(Atob(evalPadded))
           THEN /\ task' = [task EXCEPT ![t] =
                               [@ EXCEPT !.pc = "finalize", !.evalEpoch = epoch,
                                         !.used = finData,
                                         !.pending = Finalize(finData, Atob(evalPadded))]]
                /\ UNCHANGED <<config, token, deviceIdentity, finData, ui, localStorage,
                               idb, epoch, uuids, keys, issuerReqs, minted, firstTok>>
                /\ UNCHANGED <<subtle, idHist>>
                /\ UNCHANGED gvars
           ELSE Fail(t, "decode")

\* finalize settles: the token is kept in memory and persisted under the
\* site configured now, and returned
FinalizeDone(t) ==
    /\ task[t].pc = "finalize"
    /\ token' = task[t].pending
    /\ localStorage' = [localStorage EXCEPT !.tok[config.siteId] = JsonStringify(token')]
    /\ minted' = minted \cup
                 {[token |-> token', site |-> config.siteId, epoch |-> task[t].evalEpoch,
                   device |-> deviceIdentity]}
    /\ task' = [task EXCEPT ![t] = Returned(@, token')]
    /\ firstTok' = FirstAfter(task[t].site, token')
    /\ UNCHANGED <<config, deviceIdentity, finData, ui, idb, epoch, uuids, keys, issuerReqs>>
    /\ UNCHANGED <<subtle, idHist>>
    /\ UNCHANGED gvars

\* finalize rejects
FinalizeFails(t) ==
    /\ task[t].pc = "finalize"
    /\ Fail(t, "finalize")

-----------------------------------------------------------------------------
(* Widget: index.ts, fetch; holder-binding.ts, signRequest.                 *)

\* fetch(url, options): ensureToken is entered
Fetch(t, options) ==
    /\ Free(t)
    /\ config' = config
    /\ EnsureTokenEntry(t, [IdleTask EXCEPT !.op = "fetch", !.options = options], 0)
    /\ UNCHANGED <<deviceIdentity, finData, ui, localStorage, idb, epoch, keys,
                   issuerReqs, minted>>
    /\ UNCHANGED <<subtle, idHist>>
    /\ UNCHANGED gvars

\* `${proxyUrl}/${siteId}${path}`
ProxyTarget(path) == <<config.proxyUrl, "/", config.siteId, path>>

\* variant: the site header is left out
ProofHeaders_NoSite(options, proof) ==
    HeadersSet(NewHeaders(options.headers), NameProof, proof)

\* the headers of the request once proof and site are set
ProofHeaders(options, proof) ==
    HeadersSet(HeadersSet(NewHeaders(options.headers), NameProof, proof),
               NameSite, config.siteId)

\* variant: ensureToken is not awaited, fetch goes on while the mint is in
\* flight
ProofDone_Unawaited(t) ==
    /\ task[t].op = "fetch"
    /\ task[t].pc \in {"issue", "proof"}
    /\ subtle
    /\ LET options == task[t].options
           proof == GenerateSpendProof(token, MethodOf(options), Pathname(options.url))
       IN  task' = [task EXCEPT ![t] =
                       [@ EXCEPT !.pc = "sign", !.proof = proof,
                                 !.out = [NoOut EXCEPT
                                            !.url = <<config.proxyUrl, "/", config.siteId,
                                                      Pathname(options.url)>>]]]
    /\ UNCHANGED <<config, token, deviceIdentity, finData, ui, localStorage, idb,
                   epoch, uuids, keys, issuerReqs, minted, firstTok>>
    /\ UNCHANGED <<subtle, idHist>>
    /\ UNCHANGED gvars

\* generateSpendProof settles for this.token as it is now; the target and
\* the headers are built from this.config, and signRequest is called
ProofDone(t) ==
    /\ task[t].pc = "proof"
    /\ subtle
    /\ LET options == task[t].options
           proof == GenerateSpendProof(token, MethodOf(options), Pathname(options.url))
       IN  task' = [task EXCEPT ![t] =
                       [@ EXCEPT !.pc = "sign", !.proof = proof,
                                 !.out = [NoOut EXCEPT
                                            !.url = ProxyTarget(Pathname(options.url)),
                                            !.headers = ProofHeaders(options, proof)]]]
    /\ UNCHANGED <<config, token, deviceIdentity, finData, ui, localStorage, idb,
                   epoch, uuids, keys, issuerReqs, minted, firstTok>>
    /\ UNCHANGED <<subtle, idHist>>
    /\ UNCHANGED gvars

\* crypto.subtle is undefined: crypto.subtle.digest throws
ProofFails(t) ==
    /\ task[t].pc = "proof"
    /\ ~subtle
    /\ Fail(t, "proof")

\* where a call of signRequest may fail
SignFailures == {"none", "open", "get", "sign"}

\* signRequest(method, path, body) with failure point f: the signature, or
\* null when there is no private key or anything throws
SignRequest(f, method, path, body) ==
    IF f \in {"open", "get"} THEN NoSignature
    ELSE IF idb.privateKey = 0 THEN NoSignature
    ELSE IF f = "sign" \/ ~subtle THEN NoSignature
    ELSE Signature(idb.privateKey, method, path, body)

\* the holder-binding header: the signature, else the device id of a
\* fallback identity, else nothing
BindingHeaders(h, signature) ==
    IF signature # NoSignature THEN HeadersSet(h, NameSignature, signature)
    ELSE IF deviceIdentity.type = "fallback" /\ deviceIdentity.deviceId # 0
         THEN HeadersSet(h, NameDevice, deviceIdentity.deviceId)
    ELSE h

\* variant: an exception inside signRequest reaches fetch
SignDone_Raises(t, f) ==
    /\ task[t].pc = "sign"
    /\ Fail(t, "sign")

\* signRequest settles with failure point f: the binding header is set and
\* fetch(targetUrl, {...options, headers}) is called
SignDone(t, f) ==
    /\ task[t].pc = "sign"
    /\ LET options == task[t].options
           signature == SignRequest(f, MethodOf(options), Pathname(options.url),
                                    BodyString(options))
       IN  task' = [task EXCEPT ![t] =
                       [@ EXCEPT !.pc = "network", !.signature = signature,
                                 !.held = deviceIdentity,
                                 !.out = [@ EXCEPT
                                            !.method = options.method,
                                            !.body = options.body,
                                            !.headers = BindingHeaders(@, signature)]]]
    /\ UNCHANGED <<config, token, deviceIdentity, finData, ui, localStorage, idb,
                   epoch, uuids, keys, issuerReqs, minted, firstTok>>
    /\ UNCHANGED <<subtle, idHist>>
    /\ UNCHANGED gvars

\* what the proxy may answer
ProxyStatuses == {200, 402, 429}

ProxyResponse(status) == [status |-> status, body |-> "payload"]

\* variant: a rate-limit status is thrown
NetworkReply_ThrowsOnQuota(t, status) ==
    /\ task[t].pc = "network"
    /\ Fail(t, "quota")

\* the proxy answers: 429 and 402 open the quota modal, the response is
\* returned as it came
NetworkReply(t, status) ==
    /\ task[t].pc = "network"
    /\ ui' = IF status = 429 \/ status = 402 THEN [ui EXCEPT !.modal = TRUE] ELSE ui
    /\ task' = [task EXCEPT ![t] =
                   [@ EXCEPT !.pc = "done", !.response = ProxyResponse(status)]]
    /\ UNCHANGED <<config, token, deviceIdentity, finData, localStorage, idb,
                   epoch, uuids, keys, issuerReqs, minted, firstTok>>
    /\ UNCHANGED <<subtle, idHist>>
    /\ UNCHANGED gvars

\* the network call rejects
NetworkFails(t) ==
    /\ task[t].pc = "network"
    /\ Fail(t, "network")

\* the issuer moves to its next epoch
EpochRollover ==
    /\ epoch < MaxEpoch
    /\ epoch' = epoch + 1
    /\ UNCHANGED <<config, token, deviceIdentity, finData, ui, localStorage, idb, task,
                   uuids, keys, issuerReqs, minted, firstTok>>
    /\ UNCHANGED <<subtle, idHist>>
    /\ UNCHANGED gvars

\* the page is loaded again: a new widget instance, the stores are kept
Reload ==
    /\ config' = EmptyConfig
    /\ token' = NullToken
    /\ deviceIdentity' = NoIdentity
    /\ finData' = NoFinData
    /\ ui' = NoUi
    /\ task' = [t \in TaskIds |-> IdleTask]
    /\ UNCHANGED <<localStorage, idb, epoch, uuids, keys, issuerReqs, minted, firstTok>>
    /\ idHist' = [idHist EXCEPT !.why = None]
    /\ UNCHANGED subtle
    /\ UNCHANGED gvars

\* the browser drops the origin's IndexedDB database and the device id entry
\* (storage eviction, or the user deleting site data of that kind)
LoseIdentityStore ==
    /\ idb # EmptyIdb \/ localStorage.dev # 0
    /\ idb' = EmptyIdb
    /\ localStorage' = [localStorage EXCEPT !.dev = 0]
    /\ UNCHANGED <<config, token, deviceIdentity, finData, ui, task, epoch, uuids,
                   keys, issuerReqs, minted, firstTok>>
    /\ UNCHANGED <<subtle, idHist>>
    /\ UNCHANGED gvars

\* the entry `sb_token_${site}` is removed from localStorage
ClearTokenEntry(site) ==
    /\ localStorage.tok[site] # NoItem
    /\ localStorage' = [localStorage EXCEPT !.tok[site] = NoItem]
    /\ UNCHANGED <<config, token, deviceIdentity, finData, ui, idb, task, epoch,
                   uuids, keys, issuerReqs, minted, firstTok>>
    /\ UNCHANGED <<subtle, idHist>>
    /\ UNCHANGED gvars

\* a page calls init
CallInit(t) ==
    \/ \E site \in Sites, badge \in BOOLEAN : Init(t, site, badge)
    \/ \E f \in IdentityFailures : IdentityDone(t, f)

\* the mint of ensureToken goes on in the call of caller t
Mint(t) ==
    \/ \E r \in Blinds : BlindDone(t, r)
    \/ BlindFails(t)
    \/ \E why \in IssuerFailures : IssuerFails(t, why)
    \/ \E answer \in IssuerAnswers : IssuerReply(t, answer)
    \/ FinalizeDone(t)
    \/ FinalizeFails(t)

\* fetch goes on after ensureToken in the call of caller t
Proxied(t) ==
    \/ ProofDone(t)
    \/ ProofFails(t)
    \/ \E f \in SignFailures : SignDone(t, f)
    \/ \E status \in ProxyStatuses : NetworkReply(t, status)
    \/ NetworkFails(t)

\* the steps of caller t
Step(t) ==
    \/ CallInit(t)
    \/ GetToken(t)
    \/ \E options \in FetchCalls : Fetch(t, options)
    \/ Mint(t)
    \/ Proxied(t)

\* one caller at a time: every call ends before the next begins
WNext ==
    \/ Step(1)
    \/ EpochRollover
    \/ Reload

GFrozen ==
    /\ env = [BACKEND_URL |-> NoUrl]
    /\ gpc = "idle"
    /\ req = NoReq
    /\ verifyReqs = <<>>
    /\ verifyOutcome = NoOutcome
    /\ backendReqs = <<>>
    /\ backendOutcome = NoBackendOutcome
    /\ resp = NoResp

\* the gateway alone: the widget stays as constructed
GatewayInit == GInit /\ WInit

GatewaySpec == GatewayInit /\ [][GNext]_vars

\* the gateway when every verifier call and every backend call settles: the
\* fetch promises the handler awaits resolve or reject
GatewayLiveSpec ==
    /\ GatewayInit
    /\ [][GNext]_vars
    /\ WF_vars(\E out \in VerifierOutcomes : GVerifierReply(out))
    /\ WF_vars(\E out \in BackendOutcomes : GBackendReply(out))

\* the widget alone: the gateway stays idle
WidgetInit == GFrozen /\ WInit

WidgetSpec == WidgetInit /\ [][WNext]_vars

\* two callers of one site interleaved at their awaits: the page's init, and
\* a call of getToken or fetch that arrives while init is still going on
ConcurrentNext ==
    \/ Init(1, "site_42", TRUE)
    \/ \E f \in IdentityFailures : IdentityDone(1, f)
    \/ Mint(1)
    \/ GetToken(2)
    \/ \E options \in FetchCalls : Fetch(2, options)
    \/ Mint(2)
    \/ Proxied(2)

ConcurrentSpec == WidgetInit /\ [][ConcurrentNext]_vars

\* one caller of one site whose stores may be lost between any two steps
StorageNext ==
    \/ Init(1, "site_42", FALSE)
    \/ \E f \in IdentityFailures : IdentityDone(1, f)
    \/ GetToken(1)
    \/ Fetch(1, PlainGet)
    \/ Mint(1)
    \/ Proxied(1)
    \/ Reload
    \/ LoseIdentityStore
    \/ ClearTokenEntry("site_42")

StorageSpec == WidgetInit /\ [][StorageNext]_vars

\* the byte arrays generateSpendProof is applied to
TokenBytes == {<<a>> : a \in 0..GroupOrder - 1} \cup
              {<<a, b>> : a \in 1..MaxUuids, b \in 0..GroupOrder - 1}

\* two calls of generateSpendProof about to be made, each with a token and
\* the method and path of a fetch
ProofInit ==
    /\ GFrozen
    /\ config = EmptyConfig
    /\ token = NullToken
    /\ deviceIdentity = NoIdentity
    /\ finData = NoFinData
    /\ ui = NoUi
    /\ localStorage = EmptyStorage
    /\ idb = EmptyIdb
    /\ epoch = 0
    /\ uuids = 0
    /\ keys = 0
    /\ issuerReqs = {}
    /\ minted = {}
    /\ firstTok = [k \in SiteIds |-> NoFirst]
    /\ subtle = TRUE
    /\ idHist = NoIdHist
    /\ \E tok \in [TaskIds -> TokenBytes], options \in [TaskIds -> FetchCalls] :
           task = [t \in TaskIds |->
                      [IdleTask EXCEPT !.op = "fetch", !.pc = "proof",
                                       !.result = tok[t], !.options = options[t]]]

\* generateSpendProof(token, `${method}:${path}`) settles in call t
SpendProofDone(t) ==
    /\ task[t].pc = "proof"
    /\ task' = [task EXCEPT ![t] =
                   [@ EXCEPT !.pc = "done",
                             !.proof = GenerateSpendProof(task[t].result,
                                                          MethodOf(task[t].options),
                                                          Pathname(task[t].options.url))]]
    /\ UNCHANGED <<config, token, deviceIdentity, finData, ui, localStorage, idb,
                   epoch, uuids, keys, issuerReqs, minted, firstTok>>
    /\ UNCHANGED <<subtle, idHist>>
    /\ UNCHANGED gvars

ProofNext == \E t \in TaskIds : SpendProofDone(t)

ProofSpec == ProofInit /\ [][ProofNext]_vars

-----------------------------------------------------------------------------
(* Widget: properties.                                                      *)

\* ensureToken has returned a token to the call of task t
ReturnedToken(t) == task[t].result # NullToken

\* the call of task t ran within one epoch, after an ensureToken for the same
\* site had already succeeded in that epoch
LaterCallSameEpoch(t) ==
    /\ ReturnedToken(t)
    /\ task[t].base # NullToken
    /\ task[t].startEpoch = task[t].endEpoch

\* C9 as stated: once ensureToken has succeeded for a site, every later
\* sequential ensureToken for that site in the same epoch returns the same
\* bytes and sends nothing to the issuer.
C9_SameTokenNoRequest ==
    \A t \in TaskIds :
        LaterCallSameEpoch(t) =>
            /\ task[t].result = task[t].base
            /\ ~task[t].issued

\* C10 as stated: a call made after an epoch rollover does not return a token
\* minted in an earlier epoch.
C10_NoTokenOfEarlierEpoch ==
    \A t \in TaskIds :
        ReturnedToken(t) =>
            \A m \in minted :
                m.token = task[t].result => m.epoch >= task[t].startEpoch

\* the calls of ensureToken that have an issuance request in flight for site
MintsInFlight(site) == {t \in TaskIds : task[t].pc = "issue" /\ task[t].site = site}

\* C11 as stated: whatever the interleaving of concurrent ensureToken calls
\* for one siteId, at most one issuance request is in flight at a time.
C11_SingleMintInFlight ==
    \A site \in SiteIds : Cardinality(MintsInFlight(site)) <= 1

\* the ways the mint of ensureToken fails: blinding, the issuer unreachable,
\* a non-2xx answer, an answer that cannot be read or decoded, finalize
MintFailures == {"blind", "unreachable", "status", "badjson", "decode", "finalize"}

MintFailed(t) == task[t].pc = "failed" /\ task[t].why \in MintFailures

LastCallUnfailed == deviceIdentity # NoIdentity /\ idHist.why = "none"

\* C13 as stated: once getOrCreateDeviceIdentity has returned an identity,
\* a later call (here: one in which nothing fails) returns that same
\* identity while storage is kept, whatever failed in earlier calls.
C13_IdentityStable ==
    LastCallUnfailed => deviceIdentity = idHist.first

\* the last call of getOrCreateDeviceIdentity on this page found secure key
\* generation unavailable, or generating and storing the key pair failed
KeyGenerationFailed ==
    /\ deviceIdentity # NoIdentity
    /\ idHist.why \in {"nosubtle", "generate", "export", "putPublic", "putPrivate"}

\* signRequest has returned in the fetch of task t
Signed(t) ==
    /\ task[t].op = "fetch"
    /\ \/ task[t].pc \in {"network", "done"}
       \/ task[t].pc = "failed" /\ task[t].why = "network"

C15_WeakNeverSigns ==
    \A t \in TaskIds :
        (Signed(t) /\ task[t].held.type = "fallback") =>
            task[t].signature = NoSignature

\* C16: signRequest never raises. Whatever fails in it, it returns null, and
\* the fetch that awaits it goes on to the network call: a call leaves the
\* await of signRequest only for the network call (or with the page).
C16_SignRequestNeverRaises ==
    /\ [](\A f \in SignFailures \ {"none"} : \A options \in FetchCalls :
            SignRequest(f, MethodOf(options), Pathname(options.url),
                        BodyString(options)) = NoSignature)
    /\ [][\A t \in TaskIds :
            (task[t].pc = "sign" /\ task'[t].pc # "sign") =>
                \/ task'[t].pc = "network" /\ task'[t].out.url # NoOut.url
                \/ task'[t].pc = "idle"]_vars

\* a fetch sent its request without a signature although a private key is
\* stored: signRequest failed and returned null
C16_Witness ==
    \E t \in TaskIds :
        /\ task[t].pc = "network"
        /\ idb.privateKey # 0
        /\ task[t].signature = NoSignature

FetchOf(t) == task[t].op = "fetch"

\* C17 as stated, its last part: fetch throws only on transport-level
\* failure (the network call or the issuer unreachable).
C17_Original ==
    \A t \in TaskIds :
        (FetchOf(t) /\ task[t].pc = "failed") =>
            task[t].why \in {"network", "unreachable"}

\* C17: a proxied response is returned as it came, and when its status is 429
\* or 402 the quota modal has been shown; once the request is sent fetch
\* throws only if the network call fails, and before that only if ensureToken
\* fails or the proof cannot be computed.
C17_QuotaResponseReturned ==
    \A t \in TaskIds :
        FetchOf(t) =>
            /\ task[t].pc = "done" =>
                   /\ \E status \in ProxyStatuses :
                          task[t].response = ProxyResponse(status)
                   /\ task[t].response.status \in {429, 402} => ui.modal
            /\ task[t].pc = "failed" =>
                   /\ task[t].response = NoResponse
                   /\ task[t].why \in MintFailures \cup {"proof", "network"}
                   /\ task[t].why # "network" => task[t].out.method = NoOut.method
                                                  /\ task[t].signature = NoSignature
                                                  /\ task[t].out.body = NoOut.body

\* a fetch returned a 429 response and the modal is shown
C17_Witness ==
    \E t \in TaskIds :
        /\ FetchOf(t)
        /\ task[t].pc = "done"
        /\ task[t].response = ProxyResponse(429)
        /\ ui.modal

\* the request of the fetch of task t has been handed to the network
Sent(t) == Signed(t)

HasSignatureHeader(t) == ToLowerCase(NameSignature) \in DOMAIN task[t].out.headers

HasDeviceHeader(t) == ToLowerCase(NameDevice) \in DOMAIN task[t].out.headers

\* C19 as stated: a request carries X-ScopeBlind-Device with the device id
\* when signRequest returned null and the identity is Weak, and
\* X-ScopeBlind-Signature when signRequest returned a signature; none carries
\* both and every request carries one of the two.
C19_HolderBindingHeader ==
    \A t \in TaskIds :
        Sent(t) =>
            /\ (task[t].signature = NoSignature /\ task[t].held.type = "fallback") =>
                   /\ HasDeviceHeader(t)
                   /\ HeadersGet(task[t].out.headers, NameDevice) = task[t].held.deviceId
            /\ task[t].signature # NoSignature => HasSignatureHeader(t)
            /\ ~(HasSignatureHeader(t) /\ HasDeviceHeader(t))
            /\ HasSignatureHeader(t) \/ HasDeviceHeader(t)

\* what index.ts:61-67 makes of each input and each scalar: the encoded
\* blinded request
BlindedEncodings ==
    [input \in 1..(MaxUuids + 1) |->
        [r \in Scalars |-> EncodeRequest(Blind(input, r).request)]]

\* C20: a request to the issuer is a POST to /issue whose body holds
\* evalReqB64 and nothing else, the encoding of the blinded request of an
\* input drawn by the widget; every input the widget may draw has a blind
\* that gives this same request, so the request does not tell the input.
C20_IssuerSeesOnlyBlindedRequest ==
    \A request \in issuerReqs :
        /\ DOMAIN request.body = {"evalReqB64"}
        /\ request.method = "POST" /\ request.path = "/issue"
        /\ DOMAIN request.headers = {HdrContentType}
        /\ \E input \in 1..uuids, r \in Blinds :
               request.body.evalReqB64 = BlindedEncodings[input][r]
        /\ \A input \in 1..(MaxUuids + 1) : \E r \in Scalars :
               request.body.evalReqB64 = BlindedEncodings[input][r]

\* two requests reached the issuer from a page whose site and device
\* identity are set and which holds a token
C20_Witness ==
    /\ Cardinality(issuerReqs) = 2
    /\ config.siteId \in Sites
    /\ deviceIdentity # NoIdentity
    /\ token # NullToken

\* the mint that produced the token ensureToken returned to the call of task t
MintOf(t) == {m \in minted : m.token = task[t].result}

\* C21 as stated: a token is sent by fetch only while the device identity is
\* the one held when the token was minted.
C21_TokenBoundToDevice ==
    \A t \in TaskIds :
        Sent(t) => \A m \in MintOf(t) : task[t].held = m.device

\* generateSpendProof has returned in call t
Proved(t) == task[t].pc = "done" /\ task[t].proof # NoProof

SameRequest(t, u) ==
    /\ MethodOf(task[t].options) = MethodOf(task[u].options)
    /\ Pathname(task[t].options.url) = Pathname(task[u].options.url)

EnsureTokenEntered(t) ==
    /\ task[t].pc \in {"idle", "done", "failed", "identity"}
    /\ task'[t].pc \in {"blind", "proof", "done"}
    /\ task'[t] # task[t]

\* a token was minted for the configured site and its entry is gone
EntryCleared ==
    /\ \E m \in minted : m.site = config.siteId
    /\ localStorage.tok[config.siteId] = NoItem

\* C23 as stated: once the persisted entry of the site has been cleared, the
\* next ensureToken returns no token minted before and starts a mint.
C23_ClearedEntryForcesMint ==
    [][\A t \in TaskIds :
          (EnsureTokenEntered(t) /\ EntryCleared) =>
              /\ task'[t].pc = "blind"
              /\ task'[t].result \notin {m.token : m \in minted}]_vars

\* where the fetch of task t stands: nothing of a later step exists before
\* the earlier step is done
FetchStepsInOrder(t) ==
    /\ task[t].pc \in {"blind", "issue", "finalize"} =>
           /\ task[t].result = NullToken
           /\ task[t].proof = NoProof /\ task[t].out = NoOut
           /\ task[t].signature = NoSignature /\ task[t].response = NoResponse
    /\ task[t].pc = "proof" =>
           /\ task[t].result # NullToken
           /\ task[t].proof = NoProof /\ task[t].out = NoOut
           /\ task[t].signature = NoSignature /\ task[t].response = NoResponse
    /\ task[t].pc = "sign" =>
           /\ task[t].result # NullToken /\ task[t].proof # NoProof
           /\ task[t].out.method = NoOut.method /\ task[t].out.body = NoOut.body
           /\ task[t].signature = NoSignature /\ task[t].response = NoResponse
    /\ Sent(t) => task[t].result # NullToken /\ task[t].proof # NoProof
    /\ task[t].response # NoResponse => Sent(t)
    /\ MintFailed(t) =>
           /\ task[t].result = NullToken
           /\ task[t].proof = NoProof /\ task[t].out = NoOut
           /\ task[t].signature = NoSignature /\ task[t].response = NoResponse

\* a step of the fetch of task t moves it to the next stage only
FetchAdvances(t) ==
    /\ (task'[t].pc = "proof" /\ task[t].pc # "proof") =>
           task[t].pc \in {"idle", "done", "failed", "finalize"}
    /\ (task'[t].pc = "sign" /\ task[t].pc # "sign") => task[t].pc = "proof"
    /\ (task'[t].pc = "network" /\ task[t].pc # "network") => task[t].pc = "sign"

\* C24: within one fetch the steps occur in the order ensureToken, proof
\* generation, signing, network call; the network call is never issued
\* before the token is resolved, and when ensureToken fails no proof is
\* generated and no network call is made.
C24_FetchOrdering ==
    /\ [](\A t \in TaskIds : FetchOf(t) => FetchStepsInOrder(t))
    /\ [][\A t \in TaskIds : FetchOf(t)' => FetchAdvances(t)]_vars

\* a fetch minted its token, made its proof, signed and got its response
C24_Witness ==
    \E t \in TaskIds :
        /\ FetchOf(t) /\ task[t].pc = "done"
        /\ task[t].issued /\ task[t].signature # NoSignature
        /\ task[t].response = ProxyResponse(200)

\* the finalize step of the mint of task t has been called
Finalizing(t) == task[t].used # NoFinData

\* C25 as stated: every finalize step uses the blind context its own mint's
\* blind step produced, and no blind context is used by two finalize steps.
C25_BlindFinalizePaired ==
    \A t \in TaskIds :
        Finalizing(t) =>
            /\ task[t].used = task[t].ctx
            /\ \A u \in TaskIds \ {t} : task[u].used # task[t].used

\* C26 as stated: the token ensureToken returns, and fetch spends, was
\* minted for the siteId configured when the call was made.
C26_TokenOfConfiguredSite ==
    \A t \in TaskIds :
        ReturnedToken(t) =>
            \E m \in minted : m.token = task[t].result /\ m.site = task[t].site

-----------------------------------------------------------------------------
(* Gateway: one verification per request, and a response to every request. *)

\* a request is being handled, or has been answered
Handling == gpc # "idle"

\* the verifier call of this request was made and has settled
Verified == verifyReqs # <<>> /\ verifyOutcome # NoOutcome

\* the step calls the backend
CallsBackend == backendReqs' # backendReqs /\ backendReqs' # <<>>

\* C27 as stated: for every request with a proof or token the verifier is
\* called exactly once, about that request.
C27_Original ==
    (Handling /\ CarriesProof(req)) =>
        /\ Len(verifyReqs) = 1
        /\ verifyReqs[1] = VerifyRequest(req)

\* the calls made so far for the request at hand
CallsOfRequest ==
    /\ (Handling /\ CarriesProof(req) /\ req.method # "OPTIONS") =>
           /\ Len(verifyReqs) = 1
           /\ verifyReqs[1] = VerifyRequest(req)
    /\ (Handling /\ req.method = "OPTIONS") =>
           verifyReqs = <<>> /\ backendReqs = <<>>
    /\ Len(backendReqs) <= 1
    /\ (CarriesProof(req) /\ backendReqs # <<>>) => Verified
    /\ gpc = "idle" => verifyReqs = <<>> /\ verifyOutcome = NoOutcome

\* C27: for every request with a non-empty proof or token header other than
\* a preflight (OPTIONS) the verifier is called exactly once, about that
\* request and starting from no earlier outcome, and before any backend
\* call; the backend is called at most once; a preflight causes no verifier
\* call and no backend call.
C27_VerifyOncePerRequest ==
    /\ []CallsOfRequest
    /\ [][(CallsBackend /\ CarriesProof(req')) =>
              /\ verifyReqs # <<>> /\ verifyReqs' = verifyReqs
              /\ verifyOutcome' # NoOutcome]_vars

\* a request with a token header was verified once and then forwarded once
C27_Witness ==
    /\ gpc = "forward"
    /\ Truthy(tokenHeader(req))
    /\ Len(verifyReqs) = 1
    /\ Len(backendReqs) = 1
    /\ verifyOutcome.kind = "response"

\* the response was sent to the client
Answered == gpc = "done" /\ resp # NoResp

\* once answered, an invocation does nothing but end
OneResponse == gpc = "done" => (gpc' = "idle" /\ resp' = NoResp)

\* the answer to a preflight, and to any other request
AnswerOfRequest ==
    IF req.method = "OPTIONS"
    THEN resp.source = "cors" /\ resp.status = 204
    ELSE \/ resp.source = "gateway" /\ resp.status \in {403, 500, 502, 503}
         \/ resp.source = "backend" /\ resp = OnBackendReply(backendOutcome)

\* C28 as stated: when verifier and backend calls settle, every request is
\* answered, once, with a gateway error status or the backend's response.
C28_Original ==
    /\ Handling ~> Answered
    /\ [](Answered => resp.source \in {"gateway", "backend"})
    /\ [][OneResponse]_vars

\* C28: when verifier and backend calls settle, every request is answered,
\* once: with the CORS middleware's 204 for a preflight (OPTIONS), else with
\* a gateway error status or the backend's response.
C28_EveryRequestAnswered ==
    /\ Handling ~> Answered
    /\ [](Answered => AnswerOfRequest)
    /\ [][OneResponse]_vars

\* a verified request whose backend call failed was answered 502
C28_Witness ==
    /\ Answered
    /\ CarriesProof(req)
    /\ backendOutcome.kind = "unreachable"
    /\ GatewayError(502)

====
